---- MODULE Spec2Model ----
(***************************************************************************)
(* State-machine model of the MoralCoordinateAnalyzer component            *)
(* (src/src/App.tsx): the point store, the y-cache, the submit handler     *)
(* with its retry loop, and the per-point and global buttons.              *)
(*                                                                         *)
(* JavaScript runs each callback to completion, so one action is one       *)
(* synchronous stretch of code: an event handler, or the part of           *)
(* handleAnalyze between two awaits.  A handler invocation sees the state  *)
(* of the render it was created in (its closure); functional updates       *)
(* (setX(prev => ...)) are applied to the current state.  Every state      *)
(* update is rendered before the next event is dispatched.                 *)
(*                                                                         *)
(* Numbers are written as the decimal literals of the source, texts as     *)
(* sequences of one-character strings.                                     *)
(***************************************************************************)
EXTENDS Integers, Sequences, FiniteSets, TLC

VARIABLES
    actionInput,    \* useState('')                      line 28
    intentInput,    \* useState('')                      line 29
    mode,           \* useState('seismograph')           line 30
    points,         \* useState<MoralPoint[]>([...])     line 36
    yCache,         \* useState<Record<string, ...>>     line 55
    isSimulating,   \* useState(false)                   line 65
    error,          \* useState<string | null>(null)     line 66
    notification,   \* useState<string | null>(null)     line 67
    timers,         \* pending setTimeout callbacks of clearCache, line 288
    calls,          \* the invocations of handleAnalyze that have not returned
    clock,          \* the last reading of Date.now()    line 234
    submits,        \* history: number of handleAnalyze invocations so far
    clears,         \* history: number of clearCache invocations so far
    cleared,        \* history: keys cached at a clearCache and not stored since
    seen,           \* history: per mode and action text, its last successful submission
    keyCase         \* KeySpec: the two submissions whose cache keys are compared

vars == <<actionInput, intentInput, mode, points, yCache, isSimulating, error,
          notification, timers, calls, clock, submits, clears, cleared, seen,
          keyCase>>

----------------------------------------------------------------------------
(* Bounds of the model *)

MaxSubmits == 2
MaxClears == 1

\* edits of the textareas while one request is in flight
MaxEditsInFlight == 0

----------------------------------------------------------------------------
(* Program constants *)

null == "null"
undefined == "undefined"

\* for (let i = 0; i < 3; i++)
Attempts == 3

\* mutant of ErrorMessage: the outer catch leaves the error unset
ErrorMessage_none == "null"

\* setError("AI Analysis failed. Please try again.")
ErrorMessage == "AI Analysis failed. Please try again."
NotificationMessage == "Logic Cache Cleared Successfully"

\* 'I abort my child'
SeedAction ==
    <<"I", " ", "a", "b", "o", "r", "t", " ", "m", "y", " ",
      "c", "h", "i", "l", "d">>

\* 'My life was in danger'
SeedIntent ==
    <<"M", "y", " ", "l", "i", "f", "e", " ", "w", "a", "s",
      " ", "i", "n", " ", "d", "a", "n", "g", "e", "r">>

\* 'seismograph:i abort my child'
SeedKey ==
    <<"s", "e", "i", "s", "m", "o", "g", "r", "a", "p", "h", ":",
      "i", " ", "a", "b", "o", "r", "t", " ", "m", "y", " ",
      "c", "h", "i", "l", "d">>

SeedPoint ==
    [id |-> 1, action |-> SeedAction, intent |-> SeedIntent,
     x |-> "0.95", y |-> "-0.3", yMin |-> "-0.8", yMax |-> "0.2",
     xMin |-> "0.85", xMax |-> "1.0",
     label |-> <<"Abortion for the life of the mother">>,
     mode |-> "seismograph", showNoise |-> TRUE]

SeedCache ==
    SeedKey :> [y |-> "-0.3", yMin |-> "-0.8", yMax |-> "0.2",
                xMin |-> "0.85", xMax |-> "1.0"]

----------------------------------------------------------------------------
(* Inputs *)

\* what the user can type into the action textarea (besides nothing)
ActionTexts ==
    { SeedAction, <<" ", "L", "i", "e">> }

\* what the user can type into the intent textarea (besides nothing)
IntentTexts == { <<"f", "u", "n">>, <<"f", "e", "a", "r">> }

\* what callGeminiAPI can resolve to: the parsed payload, field by field;
\* a field the payload lacks is undefined
ResponseA ==
    [x |-> "0.5", y |-> "0.4", yMin |-> "0.3", yMax |-> "0.6",
     xMin |-> "0.2", xMax |-> "0.7"]

ResponseB ==
    [x |-> "-0.5", y |-> "-0.4", yMin |-> "-0.6", yMax |-> "-0.3",
     xMin |-> "-0.7", xMax |-> "-0.2"]

\* the payload {}
ResponseEmpty ==
    [x |-> undefined, y |-> undefined, yMin |-> undefined, yMax |-> undefined,
     xMin |-> undefined, xMax |-> undefined]

Responses == { ResponseA, ResponseB, ResponseEmpty }

\* what callGeminiAPI can throw
Failures == { "API Error", "No analysis returned" }

----------------------------------------------------------------------------
(* Pure functions *)

LowerChar(c) ==
    CASE c = "A" -> "a"
      [] c = "E" -> "e"
      [] c = "I" -> "i"
      [] c = "L" -> "l"
      [] OTHER -> c

toLowerCase(s) == [k \in 1..Len(s) |-> LowerChar(s[k])]

\* the white space String.prototype.trim removes, as far as a textarea
\* produces it
Whitespace == { " ", "\t", "\n" }

RECURSIVE trimStart(_)
trimStart(s) ==
    IF s # <<>> /\ Head(s) \in Whitespace THEN trimStart(Tail(s)) ELSE s

RECURSIVE trimEnd(_)
trimEnd(s) ==
    IF s # <<>> /\ s[Len(s)] \in Whitespace
    THEN trimEnd(SubSeq(s, 1, Len(s) - 1))
    ELSE s

trim(s) == trimEnd(trimStart(s))

\* type AnalysisMode = 'philosopher' | 'seismograph'
Modes == { "philosopher", "seismograph" }

\* the characters of a mode, as the template literal interpolates them
ModeChars(m) ==
    CASE m = "philosopher" ->
           <<"p", "h", "i", "l", "o", "s", "o", "p", "h", "e", "r">>
      [] m = "seismograph" ->
           <<"s", "e", "i", "s", "m", "o", "g", "r", "a", "p", "h">>

\* mutant of ActionKey: the key leaves the mode out
ActionKey_noMode(m, a) == toLowerCase(trim(a))

\* `${mode}:${actionInput.trim().toLowerCase()}`
ActionKey(m, a) == ModeChars(m) \o <<":">> \o toLowerCase(trim(a))

\* Math.pow(2, i) * 1000
RECURSIVE Pow2(_)
Pow2(n) == IF n = 0 THEN 1 ELSE 2 * Pow2(n - 1)

BackoffDelay(i) == Pow2(i) * 1000

RemoveAt(s, k) == SubSeq(s, 1, k - 1) \o SubSeq(s, k + 1, Len(s))

Ids(ps) == { ps[k].id : k \in 1..Len(ps) }

----------------------------------------------------------------------------
(* The pieces of handleAnalyze.  h is an invocation: the values its       *)
(* closure captured (actionInput, intentInput, mode, yCache, the length of *)
(* points), its actionKey, its position in the retry loop (i, pc,          *)
(* lastError, delay) and, as history, the requests it has issued, the      *)
(* attempts that failed, the number of cache clears before it started,     *)
(* whether its key was waiting in cleared when it started, and the edits   *)
(* of the textareas made during its flight.  apiResult is what             *)
(* callGeminiAPI resolved to.                                              *)

\* yCache[actionKey] !== undefined, on the yCache of the closure
Cached(h) == h.actionKey \in DOMAIN h.yCache

\* mutant of FinalY: the consistency check never overrides the returned y
FinalY_fresh(h, apiResult) ==
    [y |-> apiResult.y, yMin |-> apiResult.yMin, yMax |-> apiResult.yMax]

\* finalY, finalYMin, finalYMax
FinalY(h, apiResult) ==
    IF Cached(h)
    THEN [y |-> h.yCache[h.actionKey].y,
          yMin |-> h.yCache[h.actionKey].yMin,
          yMax |-> h.yCache[h.actionKey].yMax]
    ELSE [y |-> apiResult.y, yMin |-> apiResult.yMin, yMax |-> apiResult.yMax]

\* mutant of FinalX: the x bounds stored with a cache entry override the
\* returned ones
FinalX_cached(h, apiResult) ==
    IF Cached(h) /\ "xMin" \in DOMAIN h.yCache[h.actionKey]
    THEN [x |-> apiResult.x,
          xMin |-> h.yCache[h.actionKey].xMin,
          xMax |-> h.yCache[h.actionKey].xMax]
    ELSE [x |-> apiResult.x, xMin |-> apiResult.xMin, xMax |-> apiResult.xMax]

\* finalXMin, finalXMax and the x of newPoint
FinalX(h, apiResult) ==
    [x |-> apiResult.x, xMin |-> apiResult.xMin, xMax |-> apiResult.xMax]

\* { y: apiResult.y, yMin: apiResult.yMin, yMax: apiResult.yMax }
CacheEntry(apiResult) ==
    [y |-> apiResult.y, yMin |-> apiResult.yMin, yMax |-> apiResult.yMax]

\* { ...prev, [actionKey]: entry }
Store(prev, key, entry) ==
    [k \in DOMAIN prev \cup {key} |-> IF k = key THEN entry ELSE prev[k]]

\* mutant of NextCache: the else branch stores nothing
NextCache_noStore(prev, h, apiResult) == prev

\* mutant of NextCache: the entry is added to the cache the closure captured,
\* setYCache({ ...yCache, [actionKey]: entry })
NextCache_stale(prev, h, apiResult) ==
    IF Cached(h) THEN prev ELSE Store(h.yCache, h.actionKey, CacheEntry(apiResult))

\* the yCache after the consistency check: setYCache(prev => ...) in the else
\* branch only
NextCache(prev, h, apiResult) ==
    IF Cached(h) THEN prev ELSE Store(prev, h.actionKey, CacheEntry(apiResult))

\* mutant of NextPoints: the new point is put first, [newPoint, ...prev]
NextPoints_prepend(prev, newPoint) == <<newPoint>> \o prev

\* setPoints(prev => [...prev, newPoint])
NextPoints(prev, newPoint) == Append(prev, newPoint)

\* points.slice().reverse(): the order of the summary listing
SummaryListing(ps) == [j \in 1..Len(ps) |-> ps[Len(ps) + 1 - j]]

\* const newPoint: MoralPoint = {...}; now is Date.now()
NewPoint(h, apiResult, now) ==
    [id |-> now, action |-> h.actionInput, intent |-> h.intentInput,
     x |-> FinalX(h, apiResult).x,
     y |-> FinalY(h, apiResult).y,
     yMin |-> FinalY(h, apiResult).yMin,
     yMax |-> FinalY(h, apiResult).yMax,
     xMin |-> FinalX(h, apiResult).xMin,
     xMax |-> FinalX(h, apiResult).xMax,
     label |-> <<"Scenario ", h.pointsLength + 1>>,
     mode |-> h.mode, showNoise |-> FALSE]

\* mutants of LoopContinues: i <= 3 and i < 2
LoopContinues_le(i) == i <= Attempts

LoopContinues_short(i) == i < Attempts - 1

\* the loop test i < 3
LoopContinues(i) == i < Attempts

\* mutant of SubmitDisabled: the button ignores isSimulating
SubmitDisabled_inputsOnly == actionInput = <<>> \/ intentInput = <<>>

\* disabled={!actionInput || !intentInput || isSimulating}
SubmitDisabled == actionInput = <<>> \/ intentInput = <<>> \/ isSimulating

\* mutant of Filter: p.id === id
Filter_keep(ps, id) == SelectSeq(ps, LAMBDA p : p.id = id)

\* points.filter(p => p.id !== id)
Filter(ps, id) == SelectSeq(ps, LAMBDA p : p.id # id)

\* mutant of Toggle: showNoise: true
Toggle_on(prev, id) ==
    [k \in 1..Len(prev) |->
        IF prev[k].id = id
        THEN [prev[k] EXCEPT !.showNoise = TRUE]
        ELSE prev[k]]

\* mutant of Toggle: the flag of every point is flipped
Toggle_all(prev, id) ==
    [k \in 1..Len(prev) |-> [prev[k] EXCEPT !.showNoise = ~prev[k].showNoise]]

\* prev.map(p => p.id === id ? { ...p, showNoise: !p.showNoise } : p)
Toggle(prev, id) ==
    [k \in 1..Len(prev) |->
        IF prev[k].id = id
        THEN [prev[k] EXCEPT !.showNoise = ~prev[k].showNoise]
        ELSE prev[k]]

----------------------------------------------------------------------------
(* Initial state: the component as first rendered *)

\* {}
EmptyCache == [k \in {} |-> undefined]

\* the value of keyCase outside KeySpec
NoKeyCase == [stage |-> -1]

InitState ==
    /\ actionInput = <<>>
    /\ intentInput = <<>>
    /\ mode = "seismograph"
    /\ points = <<SeedPoint>>
    /\ yCache = SeedCache
    /\ isSimulating = FALSE
    /\ error = null
    /\ notification = null
    /\ timers = 0
    /\ calls = <<>>
    /\ clock = 1
    /\ submits = 0
    /\ clears = 0
    /\ cleared = {}
    /\ seen = [a \in {} |-> undefined]

Init ==
    /\ InitState
    /\ keyCase = NoKeyCase

----------------------------------------------------------------------------
(* Actions *)

\* onChange of the action textarea
SetActionInput(t) ==
    /\ t # actionInput
    /\ \A k \in 1..Len(calls) : calls[k].edits < MaxEditsInFlight
    /\ actionInput' = t
    /\ calls' = [k \in 1..Len(calls) |->
                    [calls[k] EXCEPT !.edits = calls[k].edits + 1]]
    /\ UNCHANGED <<intentInput, mode, points, yCache, isSimulating, error,
                   notification, timers, clock, submits, clears,
                   cleared, seen, keyCase>>

\* onChange of the intent textarea
SetIntentInput(t) ==
    /\ t # intentInput
    /\ \A k \in 1..Len(calls) : calls[k].edits < MaxEditsInFlight
    /\ intentInput' = t
    /\ calls' = [k \in 1..Len(calls) |->
                    [calls[k] EXCEPT !.edits = calls[k].edits + 1]]
    /\ UNCHANGED <<actionInput, mode, points, yCache, isSimulating, error,
                   notification, timers, clock, submits, clears,
                   cleared, seen, keyCase>>

\* click on the submit button: handleAnalyze up to its first await, that is
\* up to the fetch of the first attempt
HandleAnalyze ==
    /\ ~SubmitDisabled
    /\ ~(actionInput = <<>> \/ intentInput = <<>>)
    /\ submits < MaxSubmits
    /\ isSimulating' = TRUE
    /\ error' = null
    /\ calls' = Append(calls,
            [actionInput |-> actionInput, intentInput |-> intentInput,
             mode |-> mode, yCache |-> yCache, pointsLength |-> Len(points),
             actionKey |-> ActionKey(mode, actionInput),
             i |-> 0, pc |-> "fetch", lastError |-> undefined, delay |-> 0,
             requests |-> 1, failed |-> 0, epoch |-> clears, edits |-> 0,
             resubmission |-> ActionKey(mode, actionInput) \in cleared])
    /\ submits' = submits + 1
    /\ UNCHANGED <<actionInput, intentInput, mode, points, yCache,
                   notification, timers, clock, clears, cleared, seen, keyCase>>

\* callGeminiAPI resolves: the consistency check, the new point, return
FetchResolves(k, apiResult) ==
    /\ k \in 1..Len(calls)
    /\ calls[k].pc = "fetch"
    /\ LET h == calls[k]
           newPoint == NewPoint(h, apiResult, clock + 1)
       IN  /\ yCache' = NextCache(yCache, h, apiResult)
           /\ points' = NextPoints(points, newPoint)
           /\ seen' = Store(seen, <<h.mode, h.actionInput>>,
                  [epoch |-> h.epoch, y |-> newPoint.y,
                   yMin |-> newPoint.yMin, yMax |-> newPoint.yMax])
           /\ cleared' = IF h.resubmission THEN cleared \ {h.actionKey}
                                            ELSE cleared
    /\ clock' = clock + 1
    /\ actionInput' = <<>>
    /\ intentInput' = <<>>
    /\ isSimulating' = FALSE
    /\ calls' = RemoveAt(calls, k)
    /\ UNCHANGED <<mode, error, notification, timers, submits, clears,
                   keyCase>>

\* callGeminiAPI throws: the inner catch, up to the await of the timer
FetchRejects(k, e) ==
    /\ k \in 1..Len(calls)
    /\ calls[k].pc = "fetch"
    /\ calls' = [calls EXCEPT ![k].lastError = e,
                              ![k].failed = calls[k].failed + 1,
                              ![k].pc = "backoff",
                              ![k].delay = BackoffDelay(calls[k].i)]
    /\ UNCHANGED <<actionInput, intentInput, mode, points, yCache,
                   isSimulating, error, notification, timers, clock, submits,
                   clears, cleared, seen, keyCase>>

\* the back-off timer fires: i++, the loop test, then either the next
\* attempt's fetch or throw lastError and the outer catch
BackoffElapses(k) ==
    /\ k \in 1..Len(calls)
    /\ calls[k].pc = "backoff"
    /\ IF LoopContinues(calls[k].i + 1)
       THEN /\ calls' = [calls EXCEPT ![k].i = calls[k].i + 1,
                                     ![k].pc = "fetch",
                                     ![k].delay = 0,
                                     ![k].requests = calls[k].requests + 1]
            /\ UNCHANGED <<error, isSimulating>>
       ELSE /\ error' = ErrorMessage
            /\ isSimulating' = FALSE
            /\ calls' = RemoveAt(calls, k)
    /\ UNCHANGED <<actionInput, intentInput, mode, points, yCache,
                   notification, timers, clock, submits, clears, cleared,
                   seen, keyCase>>

\* click on a point's remove button
RemovePoint(id) ==
    /\ id \in Ids(points)
    /\ points' = Filter(points, id)
    /\ UNCHANGED <<actionInput, intentInput, mode, yCache, isSimulating,
                   error, notification, timers, calls, clock, submits, clears,
                   cleared, seen, keyCase>>

\* click on "Clear Scenarios"
ClearAllPoints ==
    /\ points' = <<>>
    /\ UNCHANGED <<actionInput, intentInput, mode, yCache, isSimulating,
                   error, notification, timers, calls, clock, submits, clears,
                   cleared, seen, keyCase>>

\* click on a point's noise button (rendered for seismograph points only)
ToggleNoise(id) ==
    /\ \E k \in 1..Len(points) :
          points[k].id = id /\ points[k].mode = "seismograph"
    /\ points' = Toggle(points, id)
    /\ UNCHANGED <<actionInput, intentInput, mode, yCache, isSimulating,
                   error, notification, timers, calls, clock, submits, clears,
                   cleared, seen, keyCase>>

\* click on "Clear Logic Cache"
ClearCache ==
    /\ clears < MaxClears
    /\ yCache' = EmptyCache
    /\ notification' = NotificationMessage
    /\ timers' = timers + 1
    /\ clears' = clears + 1
    /\ cleared' = cleared \cup DOMAIN yCache
    /\ UNCHANGED <<actionInput, intentInput, mode, points, isSimulating,
                   error, calls, clock, submits, seen, keyCase>>

\* setTimeout(() => setNotification(null), 3000) fires
NotificationTimeout ==
    /\ timers > 0
    /\ notification' = null
    /\ timers' = timers - 1
    /\ UNCHANGED <<actionInput, intentInput, mode, points, yCache,
                   isSimulating, error, calls, clock, submits, clears,
                   cleared, seen, keyCase>>

Next ==
    \/ \E t \in ActionTexts \cup {<<>>} : SetActionInput(t)
    \/ \E t \in IntentTexts \cup {<<>>} : SetIntentInput(t)
    \/ HandleAnalyze
    \/ \E k \in 1..Len(calls) : \E r \in Responses : FetchResolves(k, r)
    \/ \E k \in 1..Len(calls) : \E e \in Failures : FetchRejects(k, e)
    \/ \E k \in 1..Len(calls) : BackoffElapses(k)
    \/ \E id \in Ids(points) : RemovePoint(id)
    \/ ClearAllPoints
    \/ \E id \in Ids(points) : ToggleNoise(id)
    \/ ClearCache
    \/ NotificationTimeout

Spec == Init /\ [][Next]_vars

-----------------------------------------------------------------------------
(* The cache key as a function of mode and action text: two submissions, the
   first into an empty cache, the second against the cache the first left *)

\* action texts: 'Lie', ' lie\n', '\tLIE ', 'l ie', 'lie:', ':lie'
KeyTexts ==
    { <<"L", "i", "e">>,
      <<" ", "l", "i", "e", "\n">>,
      <<"\t", "L", "I", "E", " ">>,
      <<"l", " ", "i", "e">>,
      <<"l", "i", "e", ":">>,
      <<":", "l", "i", "e">> }

KeyCases ==
    [stage : {0}, m1 : Modes, a1 : KeyTexts, m2 : Modes, a2 : KeyTexts,
     cache : {EmptyCache}, y : {undefined}]

KeyInit ==
    /\ InitState
    /\ keyCase \in KeyCases

\* the first submission succeeds with ResponseA: lines 198, 216-231
KeyFirstSubmission ==
    /\ keyCase.stage = 0
    /\ LET h == [actionKey |-> ActionKey(keyCase.m1, keyCase.a1),
                 yCache |-> keyCase.cache]
       IN keyCase' = [keyCase EXCEPT
                        !.stage = 1,
                        !.cache = NextCache(keyCase.cache, h, ResponseA)]
    /\ UNCHANGED <<actionInput, intentInput, mode, points, yCache, isSimulating,
                   error, notification, timers, calls, clock, submits, clears,
                   cleared, seen>>

\* the second submission succeeds with ResponseB: lines 198, 216-231
KeySecondSubmission ==
    /\ keyCase.stage = 1
    /\ LET h == [actionKey |-> ActionKey(keyCase.m2, keyCase.a2),
                 yCache |-> keyCase.cache]
       IN keyCase' = [keyCase EXCEPT
                        !.stage = 2,
                        !.y = FinalY(h, ResponseB),
                        !.cache = NextCache(keyCase.cache, h, ResponseB)]
    /\ UNCHANGED <<actionInput, intentInput, mode, points, yCache, isSimulating,
                   error, notification, timers, calls, clock, submits, clears,
                   cleared, seen>>

KeyNext ==
    \/ KeyFirstSubmission
    \/ KeySecondSubmission

KeySpec == KeyInit /\ [][KeyNext]_vars

-----------------------------------------------------------------------------
(* The program with a network and timers that do their work: a pending
   fetch is eventually answered or fails, a running back-off timer eventually
   fires.  The user's events stay unconstrained. *)

\* the promise of fetch settles: await fetch(...) at line 155 returns or
\* callGeminiAPI throws
NetworkCompletes ==
    \E k \in 1..Len(calls) :
        \/ \E apiResult \in Responses : FetchResolves(k, apiResult)
        \/ \E e \in Failures : FetchRejects(k, e)

\* the timer of line 255 fires
TimerCompletes == \E k \in 1..Len(calls) : BackoffElapses(k)

FairSpec == Spec /\ WF_vars(NetworkCompletes) /\ WF_vars(TimerCompletes)

----------------------------------------------------------------------------
(* Helpers of the properties *)

Last(s) == s[Len(s)]

YOf(p) == [y |-> p.y, yMin |-> p.yMin, yMax |-> p.yMax]

XOf(p) == [x |-> p.x, xMin |-> p.xMin, xMax |-> p.xMax]

\* the points appended by submissions (the seeded point has id 1)
Appended == { k \in 1..Len(points) : points[k].id # 1 }

----------------------------------------------------------------------------
(* C1 *)

\* C1 as stated: whenever a submission succeeds, the y, yMin and yMax of the
\* point it appends equal those of the point appended by the previous
\* successful submission of the same action text under the same mode
\* (hence of every earlier one), whatever happened in between.
C1_AnyTwoSubmissions ==
    [][\A k \in 1..Len(calls) : \A r \in Responses :
          FetchResolves(k, r) =>
              \A a \in DOMAIN seen :
                  a = <<calls[k].mode, calls[k].actionInput>>
                      => YOf(Last(points')) = YOf(seen[a])]_vars

\* C1 amended: two successful submissions of the same action text under the
\* same mode append points with identical y, yMin and yMax, provided
\* clearCache is not invoked between the moment the first is triggered and
\* the moment the second is triggered (both started after the same number
\* of cache clears).  It is enough to compare each success with the previous
\* success of the same text.
C1_SameYWithoutClear ==
    [][\A k \in 1..Len(calls) : \A r \in Responses :
          FetchResolves(k, r) =>
              \A a \in DOMAIN seen :
                  (a = <<calls[k].mode, calls[k].actionInput>>
                     /\ seen[a].epoch = calls[k].epoch)
                      => YOf(Last(points')) = YOf(seen[a])]_vars

\* two appended points of the same action text and mode, with different
\* intents and different returned x, and the same y; no cache clear so far
C1_Witness ==
    \E j, k \in Appended :
        /\ j < k
        /\ points[j].action = points[k].action
        /\ points[j].mode = points[k].mode
        /\ points[j].intent # points[k].intent
        /\ points[j].x # points[k].x
        /\ points[j].action # SeedAction
        /\ YOf(points[j]) = YOf(points[k])
        /\ clears = 0

----------------------------------------------------------------------------
(* C2 *)

\* C2: the point appended by a successful submission carries the x, xMin and
\* xMax of the response that the successful attempt resolved to, whether or
\* not its action key is cached.
C2_XAlwaysFresh ==
    [][\A k \in 1..Len(calls) : \A r \in Responses :
          FetchResolves(k, r) =>
              XOf(Last(points')) = [x |-> r.x, xMin |-> r.xMin, xMax |-> r.xMax]]_vars

\* a point appended for the pre-cached action: its y is the cached one, its
\* x bounds are the response's and not the ones stored with the seed entry
C2_Witness ==
    \E k \in Appended :
        /\ points[k].action = SeedAction
        /\ YOf(points[k]) = [y |-> "-0.3", yMin |-> "-0.8", yMax |-> "0.2"]
        /\ XOf(points[k]) = [x |-> "0.5", xMin |-> "0.2", xMax |-> "0.7"]

----------------------------------------------------------------------------
(* C3 *)

\* C3: when a key was cached at a clearCache and a submission with that key,
\* triggered after that clear, succeeds (the first to do so), the appended
\* point carries the returned y, yMin and yMax, and the cache then holds
\* them under that key.
C3_ClearThenResubmit ==
    [][\A k \in 1..Len(calls) : \A r \in Responses :
          (FetchResolves(k, r) /\ calls[k].resubmission) =>
              /\ YOf(Last(points')) = [y |-> r.y, yMin |-> r.yMin, yMax |-> r.yMax]
              /\ calls[k].actionKey \in DOMAIN yCache'
              /\ YOf(yCache'[calls[k].actionKey]) =
                     [y |-> r.y, yMin |-> r.yMin, yMax |-> r.yMax]]_vars

\* the pre-cached action was cleared and resubmitted: its point and its cache
\* entry carry a returned y that differs from the seeded one
C3_Witness ==
    /\ clears > 0
    /\ SeedKey \in DOMAIN yCache
    /\ yCache[SeedKey].y = "0.4"
    /\ \E k \in Appended :
          /\ points[k].action = SeedAction
          /\ YOf(points[k]) = YOf(yCache[SeedKey])

----------------------------------------------------------------------------
(* C4 *)

\* C4: removePoint(id) deletes one element of the store, the one whose id is
\* id, and leaves the other points, their order and the cache as they were.
C4_RemoveExactlyOne ==
    [][\A id \in Ids(points) :
          RemovePoint(id) =>
              /\ yCache' = yCache
              /\ \E j \in 1..Len(points) :
                    /\ points[j].id = id
                    /\ points' = RemoveAt(points, j)]_vars

\* the seeded point was removed while both appended points stayed: the
\* second was labelled when the store held the seed and the first
C4_Witness ==
    /\ Len(points) = 2
    /\ points[1].id = 2
    /\ points[2].id = 3
    /\ points[2].label = <<"Scenario ", 3>>

----------------------------------------------------------------------------
(* C5 *)

\* C5: while the attempts of a submission fail no point is appended and no
\* error is shown; when the back-off of the third failed attempt ends, the
\* error is set to the generic message, once, the invocation returns and
\* still no point is appended.
C5_ThreeFailures ==
    [][\A k \in 1..Len(calls) :
          /\ (\E e \in Failures : FetchRejects(k, e)) =>
                 (points' = points /\ error = null /\ error' = null)
          /\ BackoffElapses(k) =>
                 /\ points' = points
                 /\ error = null
                 /\ calls[k].failed < Attempts =>
                        (error' = null /\ isSimulating')
                 /\ calls[k].failed = Attempts =>
                        /\ error' = ErrorMessage
                        /\ ~isSimulating'
                        /\ Len(calls') = Len(calls) - 1]_vars

\* the first submission failed three times: the error is shown, nothing was
\* ever appended
C5_Witness ==
    /\ error = ErrorMessage
    /\ calls = <<>>
    /\ submits = 1
    /\ clock = 1
    /\ points = <<SeedPoint>>

----------------------------------------------------------------------------
(* C6 *)

\* C6 as stated: a response that lacks x or y is treated as a failed attempt,
\* so no point of the store has an undefined x or y.
C6_NoMissingCoordinate ==
    \A k \in 1..Len(points) :
        points[k].x # undefined /\ points[k].y # undefined

----------------------------------------------------------------------------
(* C7 *)

\* C7: for every point of the store, toggleNoise with its id flips its
\* showNoise and a second toggleNoise restores it; neither changes the
\* point's coordinates or bounds, nor any other point.
C7_ToggleTwice ==
    \A j \in 1..Len(points) :
        LET once == Toggle(points, points[j].id)
            twice == Toggle(once, points[j].id)
        IN  /\ Len(once) = Len(points)
            /\ Len(twice) = Len(points)
            /\ once[j].showNoise = ~points[j].showNoise
            /\ twice[j].showNoise = points[j].showNoise
            /\ [once[j] EXCEPT !.showNoise = points[j].showNoise] = points[j]
            /\ twice[j] = points[j]
            /\ \A m \in 1..Len(points) :
                  m # j => (once[m] = points[m] /\ twice[m] = points[m])

\* toggleNoise has acted on an appended point (it is appended hidden), with
\* another point in the store
C7_Witness ==
    /\ Len(points) >= 2
    /\ \E k \in Appended : points[k].showNoise

----------------------------------------------------------------------------
(* C8 *)

\* C8: at most one invocation of handleAnalyze is outstanding; while it is,
\* isSimulating is true and the submit button is disabled; isSimulating is
\* true only then.
C8_OneInFlight ==
    /\ Len(calls) <= 1
    /\ calls # <<>> => (isSimulating /\ SubmitDisabled)
    /\ isSimulating => calls # <<>>

\* a request is outstanding in its third attempt while both textareas hold
\* text
C8_Witness ==
    /\ Len(calls) = 1
    /\ calls[1].pc = "fetch"
    /\ calls[1].i = 2
    /\ actionInput # <<>>
    /\ intentInput # <<>>

----------------------------------------------------------------------------
(* C9 *)

\* C9: an outstanding submission has issued between 1 and 3 requests, each
\* but the first after the failure of the one before: one more request than
\* failures while a request is pending, as many as failures during a
\* back-off.  (A submission whose attempt succeeded is no longer
\* outstanding.)
C9_OneToThreeRequests ==
    \A k \in 1..Len(calls) :
        /\ calls[k].requests \in 1..Attempts
        /\ calls[k].pc = "fetch" => calls[k].requests = calls[k].failed + 1
        /\ calls[k].pc = "backoff" => calls[k].requests = calls[k].failed

\* the third request of a submission is pending
C9_Witness ==
    \E k \in 1..Len(calls) :
        calls[k].requests = Attempts /\ calls[k].pc = "fetch"

----------------------------------------------------------------------------
(* C10 *)

\* C10 as stated: a successful submission writes the cache exactly when its
\* key has no entry (it is the first success with that key since the last
\* clear), and then stores what was returned; otherwise, and in every step
\* of a failing submission, the cache is untouched; an entry present before
\* and after a step has the same value.
C10_WrittenOnceByFirstSuccess ==
    [][/\ \A k \in 1..Len(calls) : \A r \in Responses :
            FetchResolves(k, r) =>
                IF calls[k].actionKey \in DOMAIN yCache
                THEN yCache' = yCache
                ELSE /\ DOMAIN yCache' = DOMAIN yCache \cup {calls[k].actionKey}
                     /\ YOf(yCache'[calls[k].actionKey]) =
                            [y |-> r.y, yMin |-> r.yMin, yMax |-> r.yMax]
       /\ \A k \in 1..Len(calls) :
            ((\E e \in Failures : FetchRejects(k, e)) \/ BackoffElapses(k))
                => yCache' = yCache
       /\ \A key \in DOMAIN yCache \cap DOMAIN yCache' :
            yCache'[key] = yCache[key]]_vars

----------------------------------------------------------------------------
(* C11 *)

\* C11 as stated: in every reachable state, the initial one included, every
\* cache entry has the fields y, yMin and yMax and no other (no xMin, xMax
\* or x).
C11_OnlyYCached ==
    \A key \in DOMAIN yCache : DOMAIN yCache[key] = {"y", "yMin", "yMax"}

-----------------------------------------------------------------------------
(* C12 *)

\* the action text trimmed and lower-cased, written out for each of KeyTexts
Normalized(a) ==
    CASE a \in { <<"L", "i", "e">>, <<" ", "l", "i", "e", "\n">>,
                 <<"\t", "L", "I", "E", " ">> } -> <<"l", "i", "e">>
      [] OTHER -> a

\* the second submission took its y values from the entry of the first
C12_SharedEntry ==
    /\ keyCase.y = CacheEntry(ResponseA)
    /\ Cardinality(DOMAIN keyCase.cache) = 1

\* the second submission kept its own y values and stored an entry of its own
C12_OwnEntry ==
    /\ keyCase.y = CacheEntry(ResponseB)
    /\ Cardinality(DOMAIN keyCase.cache) = 2

\* C12: two submissions share a cache entry exactly when they have the same
\* mode and their action texts are equal after trimming leading and trailing
\* white space and lower-casing; otherwise each has its own entry, so an
\* entry cached under one mode is never applied to the other mode.
C12_KeyIsModeAndNormalizedText ==
    keyCase.stage = 2 =>
        /\ C12_SharedEntry <=>
               /\ keyCase.m1 = keyCase.m2
               /\ Normalized(keyCase.a1) = Normalized(keyCase.a2)
        /\ C12_SharedEntry \/ C12_OwnEntry

\* the same action text under the two modes: no entry is shared
C12_Witness ==
    /\ keyCase.stage = 2
    /\ keyCase.m1 # keyCase.m2
    /\ keyCase.a1 = keyCase.a2
    /\ C12_OwnEntry

-----------------------------------------------------------------------------
(* C13 *)

\* the point of the store ps with identifier id
PointOf(ps, id) == ps[CHOOSE k \in 1..Len(ps) : ps[k].id = id]

\* the identifiers whose point has another showNoise after the step
C13_Flipped ==
    { id \in Ids(points) \cap Ids(points') :
        PointOf(points', id).showNoise # PointOf(points, id).showNoise }

\* C13: in every step, a point that enters the store is the one appended by
\* a successful analysis; a point that stays keeps every field but showNoise,
\* showNoise changes only in a toggleNoise step with that point's identifier
\* (which touches no other point); a point that leaves does so in a
\* removePoint step with its identifier or in a clearAllPoints step.
C13_PointLifecycle ==
    [][ /\ \A id \in Ids(points') \ Ids(points) :
              /\ \E k \in 1..Len(calls) : \E r \in Responses :
                    FetchResolves(k, r)
              /\ Last(points').id = id
              /\ Ids(points') = Ids(points) \cup {id}
        /\ \A id \in Ids(points) \cap Ids(points') :
              [PointOf(points', id) EXCEPT
                  !.showNoise = PointOf(points, id).showNoise]
                = PointOf(points, id)
        /\ \A id \in C13_Flipped : ToggleNoise(id) /\ C13_Flipped = {id}
        /\ \A id \in Ids(points) \ Ids(points') :
              RemovePoint(id) \/ ClearAllPoints
      ]_vars

\* an appended point was toggled next to another one left alone, and the
\* seeded point was removed
C13_Witness ==
    /\ 1 \notin Ids(points)
    /\ \E j, k \in Appended :
          /\ points[j].showNoise
          /\ ~points[k].showNoise

-----------------------------------------------------------------------------
(* C14 *)

\* 2^i seconds in milliseconds, i the 0-based index of the failed attempt
C14_Wait == <<1000, 2000, 4000>>

\* C14 as stated: a failed attempt with 0-based index i starts a wait of 2^i
\* seconds; the end of every such wait starts the next attempt of the same
\* submission; the failure is surfaced once all attempts have failed.
C14_EveryWaitThenRetry ==
    [][\A k \in 1..Len(calls) :
          /\ (\E e \in Failures : FetchRejects(k, e)) =>
                 /\ calls'[k].pc = "backoff"
                 /\ calls'[k].delay = C14_Wait[calls[k].i + 1]
          /\ BackoffElapses(k) =>
                 /\ Len(calls') = Len(calls)
                 /\ calls'[k].pc = "fetch"
                 /\ calls'[k].i = calls[k].i + 1
                 /\ calls'[k].requests = calls[k].requests + 1
          /\ (BackoffElapses(k) /\ calls[k].failed = Attempts) =>
                 error' = ErrorMessage]_vars

-----------------------------------------------------------------------------
(* C15 *)

\* C15: when a request succeeds, whatever removePoint, clearAllPoints,
\* toggleNoise and clearCache did while it was in flight stays done: the
\* store after the step is the store before the step with one new point at
\* its end; the cache after the step is the cache before the step, with one
\* entry more, under the submission's own key, exactly when that key was
\* absent from the cache at submission.
C15_NoLostUpdate ==
    [][\A k \in 1..Len(calls) : \A r \in Responses :
          FetchResolves(k, r) =>
              /\ Len(points') = Len(points) + 1
              /\ SubSeq(points', 1, Len(points)) = points
              /\ Last(points').id \notin Ids(points)
              /\ IF calls[k].actionKey \in DOMAIN calls[k].yCache
                 THEN yCache' = yCache
                 ELSE /\ DOMAIN yCache' = DOMAIN yCache \cup {calls[k].actionKey}
                      /\ \A key \in DOMAIN yCache \ {calls[k].actionKey} :
                            yCache'[key] = yCache[key]]_vars

\* ' Lie' was submitted with the seeded point in the store and the seeded
\* entry in the cache; the cache was cleared while the request was in
\* flight and the seeded point removed: the cache holds the entry of 'lie'
\* alone and the store the new point alone
C15_Witness ==
    /\ clears = 1
    /\ <<"seismograph", <<" ", "L", "i", "e">>>> \in DOMAIN seen
    /\ seen[<<"seismograph", <<" ", "L", "i", "e">>>>].epoch = 0
    /\ DOMAIN yCache = {ActionKey("seismograph", <<" ", "L", "i", "e">>)}
    /\ Len(points) = 1
    /\ points[1].label = <<"Scenario ", 2>>

-----------------------------------------------------------------------------
(* C16 *)

\* C16 as stated: right after a submission succeeds, the cache has an entry
\* under the submission's key, and its y, yMin and yMax are those of the
\* point just appended, whatever clearCache did during the flight.
C16_CacheAgreesWithNewPoint ==
    [][\A k \in 1..Len(calls) : \A r \in Responses :
          FetchResolves(k, r) =>
              /\ calls[k].actionKey \in DOMAIN yCache'
              /\ YOf(yCache'[calls[k].actionKey]) = YOf(Last(points'))]_vars

-----------------------------------------------------------------------------
(* C17 *)

\* C17: with a network and timers that complete, every triggered submission
\* settles: isSimulating returns to false and no invocation is left; in the
\* step that does so either one point was appended and the error is null, or
\* the store is unchanged and the error is set.
C17_EverySubmissionSettles ==
    /\ isSimulating ~> (~isSimulating /\ calls = <<>>)
    /\ [][(isSimulating /\ ~isSimulating') =>
              \/ /\ Len(points') = Len(points) + 1
                 /\ SubSeq(points', 1, Len(points)) = points
                 /\ error' = null
              \/ /\ points' = points
                 /\ error' # null]_vars

\* both outcomes happened: the first submission failed for good, the second
\* appended a point and took the error away
C17_Witness ==
    /\ submits = 2
    /\ ~isSimulating
    /\ calls = <<>>
    /\ error = null
    /\ clock = 2

-----------------------------------------------------------------------------
(* C18 *)

\* C18: the store is in insertion order (the identifiers, taken from the
\* clock at the append, ascend along the store, and a success puts its
\* point last), and the summary listing shows the same points in the
\* opposite order, the most recent first.
C18_InsertionOrderAndListing ==
    /\ \A j, k \in 1..Len(points) : j < k => points[j].id < points[k].id
    /\ Len(SummaryListing(points)) = Len(points)
    /\ \A j, k \in 1..Len(points) :
          j < k => SummaryListing(points)[j].id > SummaryListing(points)[k].id
    /\ { SummaryListing(points)[j] : j \in 1..Len(points) } =
          { points[j] : j \in 1..Len(points) }
    /\ points # <<>> =>
          /\ Head(SummaryListing(points)) = Last(points)
          /\ \A id \in Ids(points) : id <= Head(SummaryListing(points)).id

\* two successes after the seeded point: the listing shows the second
\* success, the first success, the seeded point
C18_Witness ==
    /\ Len(points) = 3
    /\ SummaryListing(points)[1].id = 3
    /\ SummaryListing(points)[2].id = 2
    /\ SummaryListing(points)[3].id = 1

-----------------------------------------------------------------------------
(* C19 *)

\* C19 as stated: in every reachable state the labels of the points in the
\* store are pairwise distinct.
C19_DistinctLabels ==
    \A j, k \in 1..Len(points) : j # k => points[j].label # points[k].label

=============================================================================
